---- MODULE Spec2Model ----
(***************************************************************************)
(* DriftDetector: the get-state and get-drift pipelines                    *)
(* (drift_detector/get_state.py, drift_detector/get_drift.py) as a state   *)
(* machine over the directory tree under one base path.                    *)
(*                                                                         *)
(* The tree:  <base>/drift-detect/<target>/            working area        *)
(*            <base>/drift-detect/<target>/archive/    older snapshots     *)
(*            <base>/drift-detect-archive/<target>/    retained area       *)
(*            <base>/drift-detect-archive/<target>/drift_archive/          *)
(*            <base>/drift_report.json                                     *)
(* Spec:         the environment lays files out (Env* actions), then one   *)
(*               call of run_get_drift runs step by step to "returned" or  *)
(*               "raised".                                                 *)
(* PipelineSpec: runs of run_get_state and run_get_drift follow each other *)
(*               on a tree with one target.                                *)
(* StateSpec:    one call of run_get_state on a tree with several targets. *)
(* ProbeSpec:    is_timestamp_file and the two sorts applied to names.     *)
(* EnsureSpec:   concurrent calls of ensure_directory_exists.              *)
(***************************************************************************)
EXTENDS Integers, Sequences, FiniteSets, TLC

(***************************************************************************)
(* Bounds of the model.                                                    *)
(***************************************************************************)
\* Files the environment puts under the base path before the run of Spec.
MaxFiles == 4

(***************************************************************************)
(* Names.  A file name is a string; Chars gives its characters, so that    *)
(* the regular expression and the string sort are computed, not assumed.   *)
(***************************************************************************)
\* The names a subdirectory of drift-detect or drift-detect-archive may have.
TargetNames == {"svc1", "_metadata"}

SnapshotNames ==
  {"2025.3.27.22.5.9.3.86.9", "2025.3.27.22.5.9.3.86.10", "2025.3.27.22.5.9.3.86.11"}

\* A file of the working area that is no snapshot.
OtherNames == {"template.json"}

StaleDriftName == "drift_old.json"

OutputDriftName == "drift_output.json"

\* The two files get-state requires of a target (check_required_files).
RequiredNames == {"template.json", "shortcut.json"}

\* Names that probe the pattern and the sort: 7 to 11 digit groups, an extension,
\* an empty group, a group that is no number, two extensions, a leading zero.
ProbeNames ==
  {"1.2.3.4.5.6.7", "1.2.3.4.5.6.7.8", "1.2.3.4.5.6.7.8.9", "1.2.3.4.5.6.7.8.9.10",
   "1.2.3.4.5.6.7.8.9.10.11", "1.2.3.4.5.6.7.8.json", "1.2.3.4.5.6.7..8",
   "1.2.3.4.5.6.7.x", "1.2.3.4.5.6.7.8.9.a.b", "2025.03.27.22.5.9.3.86.9"}

FileNames ==
  SnapshotNames \cup OtherNames \cup RequiredNames \cup ProbeNames
    \cup {StaleDriftName, OutputDriftName}

Chars(n) ==
  CASE n = "2025.3.27.22.5.9.3.86.9" ->
         <<"2", "0", "2", "5", ".", "3", ".", "2", "7", ".", "2", "2", ".", "5",
           ".", "9", ".", "3", ".", "8", "6", ".", "9">>
    [] n = "2025.3.27.22.5.9.3.86.10" ->
         <<"2", "0", "2", "5", ".", "3", ".", "2", "7", ".", "2", "2", ".", "5",
           ".", "9", ".", "3", ".", "8", "6", ".", "1", "0">>
    [] n = "2025.3.27.22.5.9.3.86.11" ->
         <<"2", "0", "2", "5", ".", "3", ".", "2", "7", ".", "2", "2", ".", "5",
           ".", "9", ".", "3", ".", "8", "6", ".", "1", "1">>
    [] n = "template.json" ->
         <<"t", "e", "m", "p", "l", "a", "t", "e", ".", "j", "s", "o", "n">>
    [] n = "drift_old.json" ->
         <<"d", "r", "i", "f", "t", "_", "o", "l", "d", ".", "j", "s", "o", "n">>
    [] n = "drift_output.json" ->
         <<"d", "r", "i", "f", "t", "_", "o", "u", "t", "p", "u", "t", ".", "j",
           "s", "o", "n">>
    [] n = "1.2.3.4.5.6.7" ->
         <<"1", ".", "2", ".", "3", ".", "4", ".", "5", ".", "6", ".", "7">>
    [] n = "1.2.3.4.5.6.7.8" ->
         <<"1", ".", "2", ".", "3", ".", "4", ".", "5", ".", "6", ".", "7", ".",
           "8">>
    [] n = "1.2.3.4.5.6.7.8.9" ->
         <<"1", ".", "2", ".", "3", ".", "4", ".", "5", ".", "6", ".", "7", ".",
           "8", ".", "9">>
    [] n = "1.2.3.4.5.6.7.8.9.10" ->
         <<"1", ".", "2", ".", "3", ".", "4", ".", "5", ".", "6", ".", "7", ".",
           "8", ".", "9", ".", "1", "0">>
    [] n = "1.2.3.4.5.6.7.8.9.10.11" ->
         <<"1", ".", "2", ".", "3", ".", "4", ".", "5", ".", "6", ".", "7", ".",
           "8", ".", "9", ".", "1", "0", ".", "1", "1">>
    [] n = "1.2.3.4.5.6.7.8.json" ->
         <<"1", ".", "2", ".", "3", ".", "4", ".", "5", ".", "6", ".", "7", ".",
           "8", ".", "j", "s", "o", "n">>
    [] n = "1.2.3.4.5.6.7..8" ->
         <<"1", ".", "2", ".", "3", ".", "4", ".", "5", ".", "6", ".", "7", ".",
           ".", "8">>
    [] n = "1.2.3.4.5.6.7.x" ->
         <<"1", ".", "2", ".", "3", ".", "4", ".", "5", ".", "6", ".", "7", ".",
           "x">>
    [] n = "1.2.3.4.5.6.7.8.9.a.b" ->
         <<"1", ".", "2", ".", "3", ".", "4", ".", "5", ".", "6", ".", "7", ".",
           "8", ".", "9", ".", "a", ".", "b">>
    [] n = "2025.03.27.22.5.9.3.86.9" ->
         <<"2", "0", "2", "5", ".", "0", "3", ".", "2", "7", ".", "2", "2", ".",
           "5", ".", "9", ".", "3", ".", "8", "6", ".", "9">>
    [] n = "shortcut.json" ->
         <<"s", "h", "o", "r", "t", "c", "u", "t", ".", "j", "s", "o", "n">>

\* The characters of the names above in code-point order: '.' < digits < '_' < letters.
Alphabet ==
  <<".", "0", "1", "2", "3", "4", "5", "6", "7", "8", "9", "_",
    "a", "b", "c", "d", "e", "f", "g", "h", "i", "j", "k", "l", "m",
    "n", "o", "p", "q", "r", "s", "t", "u", "v", "w", "x", "y", "z">>

Ord(c) == CHOOSE i \in 1..Len(Alphabet) : Alphabet[i] = c

Digits == {"0", "1", "2", "3", "4", "5", "6", "7", "8", "9"}

\* \w of the pattern, over the alphabet of the model.
WordChars == {Alphabet[i] : i \in 2..Len(Alphabet)}

\* \d+
IsDigits(g) == Len(g) > 0 /\ \A i \in 1..Len(g) : g[i] \in Digits

\* \w+
IsWord(g) == Len(g) > 0 /\ \A i \in 1..Len(g) : g[i] \in WordChars

\* The dot-separated groups of a character sequence.
RECURSIVE SplitDots(_)
SplitDots(s) ==
  IF \A i \in 1..Len(s) : s[i] # "."
    THEN <<s>>
    ELSE LET k == CHOOSE i \in 1..Len(s) :
                    s[i] = "." /\ \A j \in 1..(i - 1) : s[j] # "."
         IN  <<SubSeq(s, 1, k - 1)>> \o SplitDots(SubSeq(s, k + 1, Len(s)))

\* utils.is_timestamp_file: re.match(r"^(\d+\.){7,8}\d+(\.\w+)?$", file_name).
\* m digit groups (m = 8 or 9), then nothing or one more group of word characters.
is_timestamp_file(n) ==
  LET g == SplitDots(Chars(n))
  IN  \E m \in {8, 9} :
        /\ Len(g) \in {m, m + 1}
        /\ \A i \in 1..m : IsDigits(g[i])
        /\ Len(g) = m + 1 => IsWord(g[m + 1])

\* file_name.startswith("drift_")
HasDriftPrefix(n) ==
  LET c == Chars(n)
  IN  Len(c) >= 6 /\ SubSeq(c, 1, 6) = <<"d", "r", "i", "f", "t", "_">>

\* Python's str comparison a < b: by code point, a proper prefix first.
RECURSIVE SeqLess(_, _)
SeqLess(a, b) ==
  IF Len(a) = 0 THEN Len(b) > 0
  ELSE IF Len(b) = 0 THEN FALSE
  ELSE IF a[1] # b[1] THEN Ord(a[1]) < Ord(b[1])
  ELSE SeqLess(Tail(a), Tail(b))

StrLess(a, b) == SeqLess(Chars(a), Chars(b))

\* list.sort() of a set of distinct names.
RECURSIVE SortNames(_)
SortNames(S) ==
  IF S = {} THEN <<>>
  ELSE LET m == CHOOSE x \in S : \A y \in S \ {x} : StrLess(x, y)
       IN  <<m>> \o SortNames(S \ {m})

\* The two functions above, tabulated once over the names of the model.
TimestampNamed == {n \in FileNames : is_timestamp_file(n)}

DriftNamed == {n \in FileNames : HasDriftPrefix(n)}

SortedFileNames == SortNames(FileNames)

\* get_drift.get_timestamp_files over the regular files `names` of a directory:
\* the names is_timestamp_file accepts, in list.sort() order (the sorted list of
\* a subset is the sorted list of all names restricted to it).
get_timestamp_files(names) ==
  SelectSeq(SortedFileNames, LAMBDA n : n \in names /\ n \in TimestampNamed)

Range(s) == {s[i] : i \in 1..Len(s)}

\* Every order os.listdir may return the members of S in.
RECURSIVE Perms(_)
Perms(S) ==
  IF S = {} THEN {<<>>}
  ELSE UNION {{<<x>> \o p : p \in Perms(S \ {x})} : x \in S}


(***************************************************************************)
(* Program constants.                                                      *)
(***************************************************************************)
\* find_new_drift_file: "datetime.now().timestamp() - os.path.getctime(p) < 60".
RecencyWindow == 60

\* The reserved key of the report.
MetadataKey == "_metadata"

(***************************************************************************)
(* The environment: what the analyzer (cartography detect-drift) may do.   *)
(***************************************************************************)
\* How long one analyzer process may run, in seconds.
Durations == {0, RecencyWindow}

\* What the analyzer may leave behind: no file, or a drift_ file holding JSON
\* ("new_diff") or something json.load rejects ("not_json").
OutputDocs == {"new_diff", "not_json"}

\* A regular file that is neither analyzer output: creation time and content unread.
PlainFile == [ctime |-> 0, doc |-> "state", origin |-> "env"]

(***************************************************************************)
(* State.                                                                  *)
(***************************************************************************)
VARIABLES
  ddExists,        \* <base>/drift-detect is a directory
  ddaExists,       \* <base>/drift-detect-archive is a directory
  targets,         \* the subdirectories of drift-detect
  work,            \* work[t]: names of the regular files of drift-detect/t
  arcDirs,         \* the subdirectories of drift-detect-archive
  arc,             \* arc[t]: the regular files of drift-detect-archive/t, name -> file
  driftArchDirs,   \* targets t whose drift-detect-archive/t/drift_archive exists
  driftArch,       \* driftArch[t]: names of the files of that drift_archive
  reportFile,      \* <base>/drift_report.json: <<>> when absent, else <<document>>
  now,             \* the clock, in seconds
  pc,              \* where run_get_drift stands
  listing,         \* drift_detect_subfolders, in os.listdir order
  idx,             \* position of the archiving loop in listing
  toProcess,       \* subfolders_to_process: the keys in insertion order
  pidx,            \* position of the comparison loop in toProcess
  tsFiles,         \* timestamp_files of the target being compared
  consolidated,    \* consolidated_drift_data: key -> value
  success_count,
  pushed,          \* result of push_to_pocketbase: "none", "ok", "failed"
  \* History variables: what happened, read by the properties only.
  invoked,         \* invoked[t]: analyzer invocations for t, as <<start, end>> pairs
  outcome,         \* outcome[t]: what the run going on has made of the target
  sourceFile,      \* sourceFile[t]: the file the report's document of t was read from
  touched,         \* the run created a directory, copied or moved a file, ran the
                   \* analyzer or wrote the report
  raisedAt,        \* the step whose exception left the run: "none" if none
  \* get-state (drift_detector/get_state.py).
  archiveDirs,     \* targets t whose drift-detect/t/archive exists
  archive,         \* archive[t]: names of the files of drift-detect/t/archive
  born,            \* born[t]: creation time of the snapshots of drift-detect/t that
                   \* a get-state command wrote; every other file is older than
                   \* the recency window
  gsListing,       \* subfolders of run_get_state, in os.listdir order
  gsIdx,           \* position of its loop
  gsSuccess,       \* its success_count
  gsResult,        \* what run_get_state returned: "none", "true", "false"
  lastKeep,        \* history, lastKeep[t]: "none" when a file was added to the working
                   \* directory since keep-latest last ran on t (or it never ran),
                   \* "once" after it ran, "again" after it ran again with no file
                   \* added in between
  \* Probing the two pure functions of file names.
  probePc,         \* "off", "drawn", "classified", "ordered"
  nameA,
  nameB,
  accepted,        \* is_timestamp_file(nameA): "unknown", "yes", "no"
  ordered,         \* get_timestamp_files of a directory holding nameA and nameB
  descending,      \* the sorted list of handle_existing_timestamp_files for it
  \* Callers of utils.ensure_directory_exists that run at the same time.
  callPc,          \* callPc[c]: "off", "start", "absent" (os.path.exists returned
                   \* False), "done", "failed" (os.makedirs raised FileExistsError)
  callPath,        \* callPath[c]: the directory the caller was given
  \* History of one run_get_drift: what it started from and what the analyzer did.
  arc0,            \* arc when the run started
  driftArch0,      \* driftArch when the run started
  behaved          \* behaved[t]: exit status, output, duration and writing time of the
                   \* analyzer process run for t

fsVars == <<ddExists, ddaExists, targets, work, arcDirs, arc, driftArchDirs,
            driftArch, reportFile>>

\* What get-state adds: the archive folder of a working directory and its own loop.
stateVars == <<archiveDirs, archive, born, gsListing, gsIdx, gsSuccess, gsResult,
               lastKeep>>

probeVars == <<probePc, nameA, nameB, accepted, ordered, descending>>

callVars == <<callPc, callPath>>

inputVars == <<arc0, driftArch0, behaved>>

runVars == <<pc, listing, idx, toProcess, pidx, tsFiles, consolidated,
             success_count, pushed>>

histVars == <<invoked, outcome, sourceFile, touched, raisedAt>>

vars == <<fsVars, now, runVars, histVars, stateVars, probeVars, callVars, inputVars>>

NoFiles == [n \in {} |-> PlainFile]

EmptyReport == [k \in {} |-> [kind |-> "diff"]]

NoTimes == [n \in {} |-> 0]

\* The callers of ensure_directory_exists that may run at the same time.
Callers == {1, 2, 3}

NoBehaviour == [t \in {} |-> [exit |-> "ok", out |-> "none", dur |-> 0, at |-> 0]]

\* No run has started.
RunIdle ==
  /\ now = 0
  /\ pc = "idle"
  /\ listing = <<>>
  /\ idx = 1
  /\ toProcess = <<>>
  /\ pidx = 1
  /\ tsFiles = <<>>
  /\ consolidated = EmptyReport
  /\ success_count = 0
  /\ pushed = "none"
  /\ invoked = [t \in TargetNames |-> <<>>]
  /\ outcome = [t \in TargetNames |-> "UNSEEN"]
  /\ sourceFile = [t \in {} |-> PlainFile]
  /\ touched = FALSE
  /\ raisedAt = "none"
  /\ gsListing = <<>>
  /\ gsIdx = 1
  /\ gsSuccess = 0
  /\ gsResult = "none"
  /\ arc0 = [t \in TargetNames |-> NoFiles]
  /\ driftArch0 = [t \in TargetNames |-> {}]
  /\ behaved = NoBehaviour

\* No name is being probed.
ProbeOff ==
  /\ probePc = "off"
  /\ nameA = ""
  /\ nameB = ""
  /\ accepted = "unknown"
  /\ ordered = <<>>
  /\ descending = <<>>

\* No call of ensure_directory_exists is under way.
CallOff ==
  /\ callPc = [c \in Callers |-> "off"]
  /\ callPath = [c \in Callers |-> ""]

\* The empty tree under the base path.
EmptyTree ==
  /\ ddExists = FALSE
  /\ ddaExists = FALSE
  /\ targets = {}
  /\ work = [t \in TargetNames |-> {}]
  /\ arcDirs = {}
  /\ arc = [t \in TargetNames |-> NoFiles]
  /\ driftArchDirs = {}
  /\ driftArch = [t \in TargetNames |-> {}]
  /\ reportFile = <<>>
  /\ archiveDirs = {}
  /\ archive = [t \in TargetNames |-> {}]
  /\ born = [t \in TargetNames |-> NoTimes]
  /\ lastKeep = [t \in TargetNames |-> "none"]

Init == EmptyTree /\ RunIdle /\ ProbeOff /\ CallOff

(***************************************************************************)
(* The environment lays out the tree before the run.                       *)
(***************************************************************************)
RECURSIVE SumOver(_, _)
SumOver(S, f) ==
  IF S = {} THEN 0
  ELSE LET x == CHOOSE y \in S : TRUE
       IN  f[x] + SumOver(S \ {x}, f)

FileCount ==
  SumOver(TargetNames,
          [t \in TargetNames |-> Cardinality(work[t]) + Cardinality(DOMAIN arc[t])])

EnvMkTop ==
  /\ pc = "idle"
  /\ \/ ~ddExists /\ ddExists' = TRUE /\ UNCHANGED ddaExists
     \/ ~ddaExists /\ ddaExists' = TRUE /\ UNCHANGED ddExists
  /\ UNCHANGED <<targets, work, arcDirs, arc, driftArchDirs, driftArch, reportFile,
                 now, runVars, histVars>>
  /\ UNCHANGED <<stateVars, probeVars, callVars, inputVars>>

EnvMkTarget(t) ==
  /\ pc = "idle"
  /\ ddExists
  /\ t \notin targets
  /\ targets' = targets \cup {t}
  /\ UNCHANGED <<ddExists, ddaExists, work, arcDirs, arc, driftArchDirs, driftArch,
                 reportFile, now, runVars, histVars>>
  /\ UNCHANGED <<stateVars, probeVars, callVars, inputVars>>

\* A state capture (or anything else) leaves a file in the working area.
EnvPutWork(t, n) ==
  /\ pc = "idle"
  /\ t \in targets
  /\ n \notin work[t]
  /\ FileCount < MaxFiles
  /\ work' = [work EXCEPT ![t] = @ \cup {n}]
  /\ UNCHANGED <<ddExists, ddaExists, targets, arcDirs, arc, driftArchDirs, driftArch,
                 reportFile, now, runVars, histVars>>
  /\ UNCHANGED <<stateVars, probeVars, callVars, inputVars>>

\* An earlier run left a snapshot in the retained area.
EnvPutRetained(t, n) ==
  /\ pc = "idle"
  /\ ddaExists
  /\ n \notin DOMAIN arc[t]
  /\ FileCount < MaxFiles
  /\ arcDirs' = arcDirs \cup {t}
  /\ arc' = [arc EXCEPT ![t] = (n :> PlainFile) @@ @]
  /\ UNCHANGED <<ddExists, ddaExists, targets, work, driftArchDirs, driftArch,
                 reportFile, now, runVars, histVars>>
  /\ UNCHANGED <<stateVars, probeVars, callVars, inputVars>>

\* An earlier run left analyzer output, `age` seconds before this run starts.
EnvPutStaleDrift(t, age) ==
  /\ pc = "idle"
  /\ ddaExists
  /\ StaleDriftName \notin DOMAIN arc[t]
  /\ FileCount < MaxFiles
  /\ arcDirs' = arcDirs \cup {t}
  /\ driftArchDirs' = driftArchDirs \cup {t}
  /\ arc' = [arc EXCEPT ![t] =
               (StaleDriftName :> [ctime |-> 0 - age, doc |-> "old_diff", origin |-> "env"]) @@ @]
  /\ UNCHANGED <<ddExists, ddaExists, targets, work, driftArch, reportFile, now,
                 runVars, histVars>>
  /\ UNCHANGED <<stateVars, probeVars, callVars, inputVars>>

Env ==
  \/ EnvMkTop
  \/ \E t \in TargetNames : EnvMkTarget(t)
  \/ \E t \in TargetNames, n \in SnapshotNames \cup OtherNames : EnvPutWork(t, n)
  \/ \E t \in TargetNames, n \in SnapshotNames : EnvPutRetained(t, n)
  \/ \E t \in TargetNames, age \in {0, RecencyWindow} : EnvPutStaleDrift(t, age)


(***************************************************************************)
(* run_get_drift, step by step.                                            *)
(***************************************************************************)
\* utils.ensure_directory_exists on a directory `d` whose siblings are `dirs`:
\* os.makedirs only when the path does not exist.
ensure_directory_exists(dirs, d) == IF d \in dirs THEN dirs ELSE dirs \cup {d}

\* get_drift.get_subfolders: the subdirectories in the order os.listdir gives them.
get_subfolders(subdirs) == Perms(subdirs)

\* shutil.copy2 that copies nothing.
CopyInto_Nothing(dir, names) == dir

\* shutil.copy2 of the files `names` into the directory with files `dir`.
CopyInto(dir, names) == [n \in names |-> PlainFile] @@ dir

\* The files taken out of the working directory, as shutil.move does.
move_timestamp_file_to_archive_Moves(names, files) == names \ files

\* The working directory `names` once its `files` went through
\* move_timestamp_file_to_archive: shutil.copy2 (line 148) leaves the source.
move_timestamp_file_to_archive(names, files) == names

\* The files of `dir` but those named in `names`.
Without(dir, names) == [n \in (DOMAIN dir) \ names |-> dir[n]]

\* An exception reaches the except clause of run_get_drift, which re-raises it.
Raise(step) ==
  /\ pc' = "raised"
  /\ raisedAt' = step

\* check_drift_detect_folder / check_drift_detect_archive_folder raise FileNotFoundError.
CheckFoldersFail ==
  /\ pc = "idle"
  /\ ~ddExists \/ ~ddaExists
  /\ Raise("check")
  /\ UNCHANGED <<fsVars, now, listing, idx, toProcess, pidx, tsFiles, consolidated,
                 success_count, pushed, invoked, outcome, sourceFile, touched>>
  /\ UNCHANGED <<stateVars, probeVars, callVars, inputVars>>

\* Both checks pass; process_drift_detect_subfolders lists the subfolders.
BeginRun ==
  /\ pc = "idle"
  /\ ddExists /\ ddaExists
  /\ \E order \in get_subfolders(targets) : listing' = order
  /\ idx' = 1
  /\ pc' = "archiving"
  /\ UNCHANGED <<fsVars, now, toProcess, pidx, tsFiles, consolidated, success_count,
                 pushed, histVars>>
  /\ arc0' = arc
  /\ driftArch0' = driftArch
  /\ UNCHANGED <<stateVars, probeVars, callVars, behaved>>

\* process_drift_detect_subfolders, one pass of the loop: no timestamp file, continue.
ArchiveSkip ==
  /\ pc = "archiving"
  /\ idx <= Len(listing)
  /\ LET t == listing[idx]
     IN  /\ get_timestamp_files(work[t]) = <<>>
         /\ outcome' = [outcome EXCEPT ![t] = "NO_SNAPSHOT"]
  /\ idx' = idx + 1
  /\ UNCHANGED <<fsVars, now, pc, listing, toProcess, pidx, tsFiles, consolidated,
                 success_count, pushed, invoked, sourceFile, touched, raisedAt>>
  /\ UNCHANGED <<stateVars, probeVars, callVars, inputVars>>

\* One pass of the loop in which os.makedirs of the archive subfolder fails.
ArchiveMkdirFails ==
  /\ pc = "archiving"
  /\ idx <= Len(listing)
  /\ LET t == listing[idx]
     IN  /\ get_timestamp_files(work[t]) # <<>>
         /\ t \notin arcDirs
  /\ Raise("archive")
  /\ UNCHANGED <<fsVars, now, listing, idx, toProcess, pidx, tsFiles, consolidated,
                 success_count, pushed, invoked, outcome, sourceFile, touched>>
  /\ UNCHANGED <<stateVars, probeVars, callVars, inputVars>>

\* One pass of the loop in which the k-th shutil.copy2 fails.
ArchiveCopyFails ==
  /\ pc = "archiving"
  /\ idx <= Len(listing)
  /\ LET t == listing[idx]
         ts == get_timestamp_files(work[t])
     IN  /\ ts # <<>>
         /\ \E k \in 1..Len(ts) :
              /\ arcDirs' = ensure_directory_exists(arcDirs, t)
              /\ arc' = [arc EXCEPT ![t] = CopyInto(@, Range(SubSeq(ts, 1, k - 1)))]
              /\ work' = [work EXCEPT ![t] =
                            move_timestamp_file_to_archive(@, Range(SubSeq(ts, 1, k - 1)))]
              /\ touched' = (touched \/ t \notin arcDirs \/ k > 1)
  /\ Raise("archive")
  /\ UNCHANGED <<ddExists, ddaExists, targets, driftArchDirs, driftArch,
                 reportFile, now, listing, idx, toProcess, pidx, tsFiles, consolidated,
                 success_count, pushed, invoked, outcome, sourceFile>>
  /\ UNCHANGED <<stateVars, probeVars, callVars, inputVars>>

\* A target taken for comparison as soon as it has 2 timestamp files or more.
HasPair_AtLeastTwo(timestamp_files) == Len(timestamp_files) >= 2

\* Line 284: the archive subfolder holds exactly 2 timestamp files.
HasPair(timestamp_files) == Len(timestamp_files) = 2

\* One pass of the loop, lines 268-285: copy every timestamp file of the working
\* directory into the archive subfolder, then keep the target if that subfolder
\* holds exactly 2 timestamp files.
ArchiveTarget ==
  /\ pc = "archiving"
  /\ idx <= Len(listing)
  /\ LET t == listing[idx]
         ts == get_timestamp_files(work[t])
         copied == CopyInto(arc[t], Range(ts))
         ready == HasPair(get_timestamp_files(DOMAIN copied))
     IN  /\ ts # <<>>
         /\ arcDirs' = ensure_directory_exists(arcDirs, t)
         /\ arc' = [arc EXCEPT ![t] = copied]
         /\ work' = [work EXCEPT ![t] = move_timestamp_file_to_archive(@, Range(ts))]
         /\ toProcess' = IF ready THEN Append(toProcess, t) ELSE toProcess
         /\ outcome' = [outcome EXCEPT ![t] = IF ready THEN "READY" ELSE "NOT_PAIRED"]
  /\ touched' = TRUE
  /\ idx' = idx + 1
  /\ UNCHANGED <<ddExists, ddaExists, targets, driftArchDirs, driftArch,
                 reportFile, now, pc, listing, pidx, tsFiles, consolidated,
                 success_count, pushed, invoked, sourceFile, raisedAt>>
  /\ UNCHANGED <<stateVars, probeVars, callVars, inputVars>>

\* Lines 362-364: nothing to process, the empty dictionary is returned.
ReturnEmpty ==
  /\ pc = "archiving"
  /\ idx > Len(listing)
  /\ toProcess = <<>>
  /\ pc' = "returned"
  /\ UNCHANGED <<fsVars, now, listing, idx, toProcess, pidx, tsFiles, consolidated,
                 success_count, pushed, histVars>>
  /\ UNCHANGED <<stateVars, probeVars, callVars, inputVars>>

\* Lines 366-368: the loop over subfolders_to_process starts.
BeginProcessing ==
  /\ pc = "archiving"
  /\ idx > Len(listing)
  /\ toProcess # <<>>
  /\ success_count' = 0
  /\ pidx' = 1
  /\ pc' = "preparing"
  /\ UNCHANGED <<fsVars, now, listing, idx, toProcess, tsFiles, consolidated, pushed,
                 histVars>>
  /\ UNCHANGED <<stateVars, probeVars, callVars, inputVars>>


(***************************************************************************)
(* process_archive_subfolder for toProcess[pidx].                          *)
(***************************************************************************)
\* The regular files of a directory whose name starts with "drift_".
DriftFilesOf(dir) == (DOMAIN dir) \cap DriftNamed

\* move_existing_drift_files that moves nothing.
move_existing_drift_files_None(dir) == {}

\* get_drift.move_existing_drift_files: which drift_ files of the directory are
\* moved to drift_archive (shutil.move of every regular file with the prefix).
move_existing_drift_files(dir) == DriftFilesOf(dir)

\* get_drift.find_new_drift_file: the drift_ files created less than RecencyWindow
\* seconds ago; the first of them in os.listdir order is returned.
find_new_drift_file(dir, clock) ==
  {n \in DriftFilesOf(dir) : clock - dir[n].ctime < RecencyWindow}

\* os.makedirs of drift_archive fails.
PrepareMkdirFails ==
  /\ pc = "preparing"
  /\ pidx <= Len(toProcess)
  /\ toProcess[pidx] \notin driftArchDirs
  /\ Raise("compare")
  /\ UNCHANGED <<fsVars, now, listing, idx, toProcess, pidx, tsFiles, consolidated,
                 success_count, pushed, invoked, outcome, sourceFile, touched>>
  /\ UNCHANGED <<stateVars, probeVars, callVars, inputVars>>

\* Line 315: a shutil.move fails after the files `moved` were moved.
PrepareMoveFails ==
  /\ pc = "preparing"
  /\ pidx <= Len(toProcess)
  /\ LET t == toProcess[pidx]
         stale == move_existing_drift_files(arc[t])
     IN  /\ Len(get_timestamp_files(DOMAIN arc[t])) = 2
         /\ \E moved \in SUBSET stale :
              /\ moved # stale
              /\ arc' = [arc EXCEPT ![t] = Without(@, moved)]
              /\ driftArch' = [driftArch EXCEPT ![t] = @ \cup moved]
              /\ touched' = (touched \/ t \notin driftArchDirs \/ moved # {})
         /\ driftArchDirs' = ensure_directory_exists(driftArchDirs, t)
  /\ Raise("compare")
  /\ UNCHANGED <<ddExists, ddaExists, targets, work, arcDirs, reportFile, now,
                 listing, idx, toProcess, pidx, tsFiles, consolidated, success_count,
                 pushed, invoked, outcome, sourceFile>>
  /\ UNCHANGED <<stateVars, probeVars, callVars, inputVars>>

\* Lines 303-315: drift_archive is ensured; unless 2 timestamp files are found the
\* target is skipped (return False); else the existing drift files are moved away
\* and the analyzer is about to be invoked.
PrepareTarget ==
  /\ pc = "preparing"
  /\ pidx <= Len(toProcess)
  /\ LET t == toProcess[pidx]
         ts == get_timestamp_files(DOMAIN arc[t])
         stale == move_existing_drift_files(arc[t])
     IN  /\ driftArchDirs' = ensure_directory_exists(driftArchDirs, t)
         /\ IF Len(ts) # 2
              THEN /\ outcome' = [outcome EXCEPT ![t] = "NOT_PAIRED"]
                   /\ touched' = (touched \/ t \notin driftArchDirs)
                   /\ pidx' = pidx + 1
                   /\ UNCHANGED <<arc, driftArch, tsFiles, pc>>
              ELSE /\ arc' = [arc EXCEPT ![t] = Without(@, stale)]
                   /\ driftArch' = [driftArch EXCEPT ![t] = @ \cup stale]
                   /\ touched' = (touched \/ t \notin driftArchDirs \/ stale # {})
                   /\ tsFiles' = ts
                   /\ pc' = "invoking"
                   /\ UNCHANGED <<outcome, pidx>>
  /\ UNCHANGED <<ddExists, ddaExists, targets, work, arcDirs, reportFile, now,
                 listing, idx, toProcess, consolidated, success_count, pushed,
                 invoked, sourceFile, raisedAt>>
  /\ UNCHANGED <<stateVars, probeVars, callVars, inputVars>>

\* os.path.join(archive_subfolder_path, file_name): a path is the sequence of its
\* components.
PathOf(t, file_name) == <<"drift-detect-archive", t, file_name>>

\* os.path.basename.
basename(path) == path[Len(path)]

\* What one analyzer process does to the target's directory: it may write a drift_
\* file `at` seconds after it starts.
AnalyzerWrites(dir, out, clock, at) ==
  IF out = "none" THEN dir
  ELSE (OutputDriftName :> [ctime |-> clock + at, doc |-> out, origin |-> "run"]) @@ dir

\* run_cartography_detect_drift that runs the command again when it failed.
run_cartography_detect_drift_Retry(t, start_time_file, end_time_file, exit, out, dur, at) ==
  /\ invoked' = [invoked EXCEPT ![t] =
                  Append(@, <<basename(start_time_file), basename(end_time_file)>>)]
  /\ behaved' = (t :> [exit |-> exit, out |-> out, dur |-> dur, at |-> at]) @@ behaved
  /\ arc' = [arc EXCEPT ![t] = AnalyzerWrites(@, out, now, at)]
  /\ now' = now + dur
  /\ touched' = TRUE
  /\ pc' = IF exit = "ok" THEN "collecting" ELSE "invoking"
  /\ UNCHANGED <<pidx, outcome>>

\* run_cartography_detect_drift with the two file names; utils.run_command returns
\* True on exit status 0 and False on CalledProcessError or any other exception.
run_cartography_detect_drift(t, start_time_file, end_time_file, exit, out, dur, at) ==
  /\ invoked' = [invoked EXCEPT ![t] =
                  Append(@, <<basename(start_time_file), basename(end_time_file)>>)]
  /\ behaved' = (t :> [exit |-> exit, out |-> out, dur |-> dur, at |-> at]) @@ behaved
  /\ arc' = [arc EXCEPT ![t] = AnalyzerWrites(@, out, now, at)]
  /\ now' = now + dur
  /\ touched' = TRUE
  /\ IF exit = "ok"
       THEN /\ pc' = "collecting"
            /\ UNCHANGED <<pidx, outcome>>
       ELSE /\ pc' = "preparing"
            /\ pidx' = pidx + 1
            /\ outcome' = [outcome EXCEPT ![t] = "TOOL_FAILURE"]

\* Line 318: the analyzer runs.
Invoke ==
  /\ pc = "invoking"
  /\ \E exit \in {"ok", "failed"}, out \in {"none"} \cup OutputDocs, dur \in Durations :
       \E at \in (IF out = "none" THEN {0} ELSE {0, dur}) :
         run_cartography_detect_drift(toProcess[pidx],
                                      PathOf(toProcess[pidx], tsFiles[1]),
                                      PathOf(toProcess[pidx], tsFiles[2]),
                                      exit, out, dur, at)
  /\ UNCHANGED <<ddExists, ddaExists, targets, work, arcDirs, driftArchDirs, driftArch,
                 reportFile, listing, idx, toProcess, tsFiles, consolidated,
                 success_count, pushed, sourceFile, raisedAt>>
  /\ UNCHANGED <<stateVars, probeVars, callVars, arc0, driftArch0>>

\* Lines 319-338 after a successful command.
Collect ==
  /\ pc = "collecting"
  /\ LET t == toProcess[pidx]
         found == find_new_drift_file(arc[t], now)
     IN  \/ /\ found = {}
            /\ outcome' = [outcome EXCEPT ![t] = "NO_OUTPUT"]
            /\ UNCHANGED <<consolidated, success_count, sourceFile>>
         \/ \E n \in found :
              IF arc[t][n].doc = "not_json"
                THEN /\ outcome' = [outcome EXCEPT ![t] = "DATA_FORMAT_ERROR"]
                     /\ UNCHANGED <<consolidated, success_count, sourceFile>>
                ELSE /\ consolidated' =
                          (t :> [kind |-> "diff", doc |-> arc[t][n].doc]) @@ consolidated
                     /\ success_count' = success_count + 1
                     /\ sourceFile' = (t :> arc[t][n]) @@ sourceFile
                     /\ outcome' = [outcome EXCEPT ![t] = "DIFFED"]
  /\ pidx' = pidx + 1
  /\ pc' = "preparing"
  /\ UNCHANGED <<fsVars, now, listing, idx, toProcess, tsFiles, pushed, invoked,
                 touched, raisedAt>>
  /\ UNCHANGED <<stateVars, probeVars, callVars, inputVars>>

(***************************************************************************)
(* Lines 372-394: metadata, drift_report.json, the push, the return.       *)
(***************************************************************************)
\* Metadata counting every listed subfolder as processed.
Metadata_CountsListing ==
  [kind |-> "metadata",
   generated_at |-> now,
   base_path |-> "base",
   subfolders_processed |-> Len(listing),
   subfolders_with_drift |-> success_count]

\* Metadata counting every processed subfolder as one with drift.
Metadata_DriftCountsProcessed ==
  [kind |-> "metadata",
   generated_at |-> now,
   base_path |-> "base",
   subfolders_processed |-> Len(toProcess),
   subfolders_with_drift |-> Len(toProcess)]

\* Lines 375-380.
Metadata ==
  [kind |-> "metadata",
   generated_at |-> now,
   base_path |-> "base",
   subfolders_processed |-> Len(toProcess),
   subfolders_with_drift |-> success_count]

WithMetadata(report) == (MetadataKey :> Metadata) @@ report

\* open(drift_report_path, 'w') fails.
WriteReportFails ==
  /\ pc = "preparing"
  /\ pidx > Len(toProcess)
  /\ consolidated' = WithMetadata(consolidated)
  /\ Raise("report")
  /\ UNCHANGED <<fsVars, now, listing, idx, toProcess, pidx, tsFiles, success_count,
                 pushed, invoked, outcome, sourceFile, touched>>
  /\ UNCHANGED <<stateVars, probeVars, callVars, inputVars>>

WriteReport ==
  /\ pc = "preparing"
  /\ pidx > Len(toProcess)
  /\ consolidated' = WithMetadata(consolidated)
  /\ reportFile' = <<consolidated'>>
  /\ touched' = TRUE
  /\ pc' = "pushing"
  /\ UNCHANGED <<ddExists, ddaExists, targets, work, arcDirs, arc, driftArchDirs,
                 driftArch, now, listing, idx, toProcess, pidx, tsFiles, success_count,
                 pushed, invoked, outcome, sourceFile, raisedAt>>
  /\ UNCHANGED <<stateVars, probeVars, callVars, inputVars>>

\* A push whose failure leaves run_get_drift as an exception.
Push_RaisesOnFailure ==
  /\ pc = "pushing"
  /\ \E r \in {"ok", "failed"} :
       /\ pushed' = r
       /\ pc' = IF r = "ok" THEN "returned" ELSE "raised"
  /\ UNCHANGED <<fsVars, now, listing, idx, toProcess, pidx, tsFiles, consolidated,
                 success_count, invoked, outcome, sourceFile, touched, raisedAt>>
  /\ UNCHANGED <<stateVars, probeVars, callVars, inputVars>>

\* push_to_pocketbase returns True or False and never raises; then line 394 returns.
Push ==
  /\ pc = "pushing"
  /\ \E r \in {"ok", "failed"} : pushed' = r
  /\ pc' = "returned"
  /\ UNCHANGED <<fsVars, now, listing, idx, toProcess, pidx, tsFiles, consolidated,
                 success_count, invoked, outcome, sourceFile, touched, raisedAt>>
  /\ UNCHANGED <<stateVars, probeVars, callVars, inputVars>>

Run ==
  \/ CheckFoldersFail
  \/ BeginRun
  \/ ArchiveSkip
  \/ ArchiveMkdirFails
  \/ ArchiveCopyFails
  \/ ArchiveTarget
  \/ ReturnEmpty
  \/ BeginProcessing
  \/ PrepareMkdirFails
  \/ PrepareMoveFails
  \/ PrepareTarget
  \/ Invoke
  \/ Collect
  \/ WriteReportFails
  \/ WriteReport
  \/ Push

Next == Env \/ Run

Spec == Init /\ [][Next]_vars


(***************************************************************************)
(* run_get_state (drift_detector/get_state.py), step by step, and the      *)
(* pipeline: runs of get-state and get-drift that follow each other on a   *)
(* tree with the one target svc1.                                          *)
(***************************************************************************)
Reverse(s) == [i \in 1..Len(s) |-> s[Len(s) + 1 - i]]

\* get_state.handle_existing_timestamp_files, lines 103-111: the timestamp files
\* of the directory, sorted with reverse=True.
sorted_descending(names) == Reverse(get_timestamp_files(names))

\* handle_existing_timestamp_files that moves the second file of the list only.
handle_existing_timestamp_files_MoveOne(names) ==
  LET ts == sorted_descending(names)
  IN  IF Len(ts) > 1 THEN {ts[2]} ELSE {}

\* Lines 113-119: the files moved to the archive folder, every one but the first
\* of the sorted list.
handle_existing_timestamp_files(names) ==
  LET ts == sorted_descending(names)
  IN  IF Len(ts) > 0 THEN Range(Tail(ts)) ELSE {}

\* shutil.move that loses the files.
MoveInto_Lost(names, moved) == names

\* shutil.move of the files `moved` into the archive folder holding `names`.
MoveInto(names, moved) == names \cup moved

\* check_required_files: template.json and shortcut.json are files of the folder.
\* check_required_files looking for template.json only.
check_required_files_TemplateOnly(names) == "template.json" \in names

check_required_files(names) == RequiredNames \subseteq names

\* check_state_file_created: the timestamp files created less than RecencyWindow
\* seconds ago.
check_state_file_created(names, times, clock) ==
  {n \in Range(get_timestamp_files(names)) :
     n \in DOMAIN times /\ clock - times[n] < RecencyWindow}

\* The creation times `times` without the files `names`.
Forget(times, names) == [n \in (DOMAIN times) \ names |-> times[n]]

getDriftVars == <<ddaExists, arcDirs, arc, driftArchDirs, driftArch, reportFile,
                  listing, idx, toProcess, pidx, tsFiles, consolidated, success_count,
                  pushed, invoked, sourceFile, touched>>

\* check_drift_detect_folder raises FileNotFoundError.
StateCheckFails ==
  /\ pc = "idle"
  /\ ~ddExists
  /\ Raise("gs_check")
  /\ UNCHANGED <<getDriftVars, outcome, ddExists, targets, work, now, stateVars,
                 probeVars, callVars, inputVars>>

\* Lines 203-205: no subfolder, False is returned.
StateReturnEmpty ==
  /\ pc = "idle"
  /\ ddExists
  /\ targets = {}
  /\ gsResult' = "false"
  /\ pc' = "gs_returned"
  /\ UNCHANGED <<getDriftVars, outcome, ddExists, targets, work, now, raisedAt, archiveDirs,
                 archive, born, gsListing, gsIdx, gsSuccess, lastKeep,
                 probeVars, callVars, inputVars>>

\* Lines 200-208: the loop over the subfolders starts.
StateBegin ==
  /\ pc = "idle"
  /\ ddExists
  /\ targets # {}
  /\ \E order \in get_subfolders(targets) : gsListing' = order
  /\ gsIdx' = 1
  /\ gsSuccess' = 0
  /\ pc' = "gs_processing"
  /\ UNCHANGED <<getDriftVars, outcome, ddExists, targets, work, now, raisedAt, archiveDirs,
                 archive, born, gsResult, lastKeep, probeVars, callVars, inputVars>>

\* process_subfolder, lines 176-178: a required file is missing, return False.
StateSkip ==
  /\ pc = "gs_processing"
  /\ gsIdx <= Len(gsListing)
  /\ ~check_required_files(work[gsListing[gsIdx]])
  /\ gsIdx' = gsIdx + 1
  /\ outcome' = [outcome EXCEPT ![gsListing[gsIdx]] = "SKIPPED"]
  /\ UNCHANGED <<getDriftVars, ddExists, targets, work, now, pc, raisedAt, archiveDirs,
                 archive, born, gsListing, gsSuccess, gsResult, lastKeep,
                 probeVars, callVars, inputVars>>

\* Lines 180-181: os.makedirs of the archive folder fails, or a shutil.move fails
\* after the first k files were moved.
StateKeepLatestFails ==
  /\ pc = "gs_processing"
  /\ gsIdx <= Len(gsListing)
  /\ LET t == gsListing[gsIdx]
         ts == sorted_descending(work[t])
         older == IF Len(ts) > 0 THEN Tail(ts) ELSE <<>>
     IN  /\ check_required_files(work[t])
         /\ \/ /\ t \notin archiveDirs
               /\ UNCHANGED <<work, archiveDirs, archive, born, lastKeep>>
            \/ \E k \in 0..(Len(older) - 1) :
                 LET moved == Range(SubSeq(older, 1, k))
                 IN  /\ archiveDirs' = ensure_directory_exists(archiveDirs, t)
                     /\ work' = [work EXCEPT ![t] = @ \ moved]
                     /\ archive' = [archive EXCEPT ![t] = MoveInto(@, moved)]
                     /\ born' = [born EXCEPT ![t] = Forget(@, moved)]
                     /\ lastKeep' = [lastKeep EXCEPT ![t] = "none"]
  /\ Raise("gs_keep")
  /\ UNCHANGED <<getDriftVars, outcome, ddExists, targets, now, gsListing, gsIdx, gsSuccess,
                 gsResult, probeVars, callVars, inputVars>>

\* Lines 180-181: ensure_archive_folder, then handle_existing_timestamp_files.
StateKeepLatest ==
  /\ pc = "gs_processing"
  /\ gsIdx <= Len(gsListing)
  /\ LET t == gsListing[gsIdx]
         moved == handle_existing_timestamp_files(work[t])
     IN  /\ check_required_files(work[t])
         /\ archiveDirs' = ensure_directory_exists(archiveDirs, t)
         /\ work' = [work EXCEPT ![t] = @ \ moved]
         /\ archive' = [archive EXCEPT ![t] = MoveInto(@, moved)]
         /\ born' = [born EXCEPT ![t] = Forget(@, moved)]
         /\ lastKeep' = [lastKeep EXCEPT ![t] = IF @ = "none" THEN "once" ELSE "again"]
  /\ pc' = "gs_invoking"
  /\ UNCHANGED <<getDriftVars, outcome, ddExists, targets, now, raisedAt, gsListing, gsIdx,
                 gsSuccess, gsResult, probeVars, callVars, inputVars>>

\* What one get-state command does to the working directory: it may write a new
\* snapshot file `at` seconds after it starts.
CaptureWrites(names, out) == IF out = "none" THEN names ELSE names \cup {out}

\* Lines 183-187: run_cartography_get_state, then on exit status 0
\* check_state_file_created; process_subfolder returns whether a file was found.
run_cartography_get_state(t, exit, out, dur, at) ==
  LET files == CaptureWrites(work[t], out)
      times == IF out = "none" THEN born[t] ELSE (out :> (now + at)) @@ born[t]
      found == exit = "ok" /\ check_state_file_created(files, times, now + dur) # {}
  IN  /\ work' = [work EXCEPT ![t] = files]
      /\ born' = [born EXCEPT ![t] = times]
      /\ now' = now + dur
      /\ gsSuccess' = IF found THEN gsSuccess + 1 ELSE gsSuccess
      /\ outcome' = [outcome EXCEPT ![t] = IF exit # "ok" THEN "COMMAND_FAILED"
                                            ELSE IF found THEN "CAPTURED"
                                            ELSE "NO_NEW_FILE"]
      /\ lastKeep' = [lastKeep EXCEPT ![t] = IF out = "none" THEN @ ELSE "none"]

StateInvoke ==
  /\ pc = "gs_invoking"
  /\ LET t == gsListing[gsIdx]
     IN  \E exit \in {"ok", "failed"}, out \in {"none"} \cup (SnapshotNames \ work[t]),
            dur \in Durations :
           \E at \in (IF out = "none" THEN {0} ELSE {0, dur}) :
             run_cartography_get_state(t, exit, out, dur, at)
  /\ gsIdx' = gsIdx + 1
  /\ pc' = "gs_processing"
  /\ UNCHANGED <<getDriftVars, ddExists, targets, raisedAt, archiveDirs, archive,
                 gsListing, gsResult, probeVars, callVars, inputVars>>

\* run_get_state returning True only when every subfolder succeeded.
StateReturn_EveryTarget ==
  /\ pc = "gs_processing"
  /\ gsIdx > Len(gsListing)
  /\ gsResult' = IF gsSuccess = Len(gsListing) THEN "true" ELSE "false"
  /\ pc' = "gs_returned"
  /\ UNCHANGED <<getDriftVars, outcome, ddExists, targets, work, now, raisedAt,
                 archiveDirs, archive, born, gsListing, gsIdx, gsSuccess, lastKeep,
                 probeVars, callVars, inputVars>>

\* Lines 212-213.
StateReturn ==
  /\ pc = "gs_processing"
  /\ gsIdx > Len(gsListing)
  /\ gsResult' = IF gsSuccess > 0 THEN "true" ELSE "false"
  /\ pc' = "gs_returned"
  /\ UNCHANGED <<getDriftVars, outcome, ddExists, targets, work, now, raisedAt, archiveDirs,
                 archive, born, gsListing, gsIdx, gsSuccess, lastKeep,
                 probeVars, callVars, inputVars>>

GetState ==
  \/ StateCheckFails
  \/ StateReturnEmpty
  \/ StateBegin
  \/ StateSkip
  \/ StateKeepLatestFails
  \/ StateKeepLatest
  \/ StateInvoke
  \/ StateReturn

\* A creation time read on a clock set back by `elapsed` seconds; whatever is
\* older than the recency window is as old as the window.
Aged(ctime, elapsed) ==
  IF ctime - elapsed < 0 - RecencyWindow THEN 0 - RecencyWindow ELSE ctime - elapsed

\* The files of a directory seen by a later run: the drift_ files aged, and none
\* written by that run.
AgedFiles(dir, elapsed) ==
  [n \in DOMAIN dir |->
     IF n \in DriftNamed
       THEN [ctime |-> Aged(dir[n].ctime, elapsed), doc |-> dir[n].doc, origin |-> "env"]
       ELSE dir[n]]

\* cli.main is called again, `gap` seconds after the last run ended: a new
\* process, with the tree as the last run left it.  The clock restarts at 0.
Rerun ==
  /\ pc \in {"returned", "raised", "gs_returned"}
  /\ \E gap \in Durations :
       /\ arc' = [t \in TargetNames |-> AgedFiles(arc[t], now + gap)]
       /\ born' = [t \in TargetNames |->
                     [n \in DOMAIN born[t] |-> Aged(born[t][n], now + gap)]]
  /\ now' = 0
  /\ pc' = "idle"
  /\ listing' = <<>>
  /\ idx' = 1
  /\ toProcess' = <<>>
  /\ pidx' = 1
  /\ tsFiles' = <<>>
  /\ consolidated' = EmptyReport
  /\ success_count' = 0
  /\ pushed' = "none"
  /\ invoked' = [t \in TargetNames |-> <<>>]
  /\ outcome' = [t \in TargetNames |-> "UNSEEN"]
  /\ sourceFile' = [t \in {} |-> PlainFile]
  /\ touched' = FALSE
  /\ raisedAt' = "none"
  /\ gsListing' = <<>>
  /\ gsIdx' = 1
  /\ gsSuccess' = 0
  /\ gsResult' = "none"
  /\ arc0' = [t \in TargetNames |-> NoFiles]
  /\ driftArch0' = [t \in TargetNames |-> {}]
  /\ behaved' = NoBehaviour
  /\ UNCHANGED <<ddExists, ddaExists, targets, work, arcDirs, driftArchDirs, driftArch,
                 reportFile, archiveDirs, archive, lastKeep, probeVars, callVars>>

\* The target of the pipeline runs.
PipelineTarget == "svc1"

\* The tree before the first run: the top-level directories may be missing, the
\* target's working directory holds any of the snapshot and required files, and
\* nothing is archived or retained yet.
PipelineInit ==
  /\ RunIdle
  /\ ProbeOff
  /\ CallOff
  /\ ddExists \in BOOLEAN
  /\ ddaExists \in BOOLEAN
  /\ targets \in (IF ddExists THEN {{}, {PipelineTarget}} ELSE {{}})
  /\ \E files \in SUBSET (SnapshotNames \cup RequiredNames) :
       /\ PipelineTarget \notin targets => files = {}
       /\ work = [t \in TargetNames |-> IF t = PipelineTarget THEN files ELSE {}]
  /\ arcDirs = {}
  /\ arc = [t \in TargetNames |-> NoFiles]
  /\ driftArchDirs = {}
  /\ driftArch = [t \in TargetNames |-> {}]
  /\ reportFile = <<>>
  /\ archiveDirs = {}
  /\ archive = [t \in TargetNames |-> {}]
  /\ born = [t \in TargetNames |-> NoTimes]
  /\ lastKeep = [t \in TargetNames |-> "none"]

PipelineNext == GetState \/ Run \/ Rerun

PipelineSpec == PipelineInit /\ [][PipelineNext]_vars

(***************************************************************************)
(* One run of run_get_state over a tree with several targets: drift-detect *)
(* may be missing or empty, each working directory holds any of the        *)
(* snapshot and required files, and an archive folder may exist already.   *)
(***************************************************************************)
StateInit ==
  /\ RunIdle
  /\ ProbeOff
  /\ CallOff
  /\ ddExists \in BOOLEAN
  /\ ddaExists = FALSE
  /\ targets \in (IF ddExists THEN {{}, TargetNames} ELSE {{}})
  /\ work \in [TargetNames -> SUBSET (SnapshotNames \cup RequiredNames)]
  /\ \A t \in TargetNames \ targets : work[t] = {}
  /\ arcDirs = {}
  /\ arc = [t \in TargetNames |-> NoFiles]
  /\ driftArchDirs = {}
  /\ driftArch = [t \in TargetNames |-> {}]
  /\ reportFile = <<>>
  /\ archiveDirs \in SUBSET targets
  /\ archive = [t \in TargetNames |-> {}]
  /\ born = [t \in TargetNames |-> NoTimes]
  /\ lastKeep = [t \in TargetNames |-> "none"]

StateNext == GetState

StateSpec == StateInit /\ [][StateNext]_vars

(***************************************************************************)
(* The two pure functions of file names, applied to names drawn from       *)
(* FileNames: a directory holds the regular files nameA and nameB.         *)
(***************************************************************************)
ProbeInit ==
  /\ EmptyTree
  /\ RunIdle
  /\ CallOff
  /\ probePc = "drawn"
  /\ nameA \in FileNames
  /\ nameB \in FileNames
  /\ accepted = "unknown"
  /\ ordered = <<>>
  /\ descending = <<>>

\* utils.is_timestamp_file(nameA).
ClassifyName ==
  /\ probePc = "drawn"
  /\ accepted' = IF is_timestamp_file(nameA) THEN "yes" ELSE "no"
  /\ probePc' = "classified"
  /\ UNCHANGED <<fsVars, now, runVars, histVars, stateVars, nameA, nameB, ordered,
                 descending, callVars, inputVars>>

\* The two collectors list the directory.
OrderNames ==
  /\ probePc = "classified"
  /\ ordered' = get_timestamp_files({nameA, nameB})
  /\ descending' = sorted_descending({nameA, nameB})
  /\ probePc' = "ordered"
  /\ UNCHANGED <<fsVars, now, runVars, histVars, stateVars, nameA, nameB, accepted,
                 callVars, inputVars>>

ProbeNext == ClassifyName \/ OrderNames

ProbeSpec == ProbeInit /\ [][ProbeNext]_vars

(***************************************************************************)
(* utils.ensure_directory_exists called by several callers at once, each   *)
(* for the archive folder of a target: the test of line 18 and the         *)
(* os.makedirs of line 19 are two steps, and steps of other callers may    *)
(* come between them.                                                      *)
(***************************************************************************)
EnsureInit ==
  /\ RunIdle
  /\ ProbeOff
  /\ ddExists = TRUE
  /\ ddaExists = FALSE
  /\ targets = TargetNames
  /\ work = [t \in TargetNames |-> {}]
  /\ arcDirs = {}
  /\ arc = [t \in TargetNames |-> NoFiles]
  /\ driftArchDirs = {}
  /\ driftArch = [t \in TargetNames |-> {}]
  /\ reportFile = <<>>
  /\ archiveDirs \in SUBSET TargetNames
  /\ archive = [t \in TargetNames |-> {}]
  /\ born = [t \in TargetNames |-> NoTimes]
  /\ lastKeep = [t \in TargetNames |-> "none"]
  /\ callPc = [c \in Callers |-> "start"]
  /\ callPath \in [Callers -> TargetNames]

\* Line 18: os.path.exists(directory_path).
CallExists(c) ==
  /\ callPc[c] = "start"
  /\ callPc' = [callPc EXCEPT ![c] = IF callPath[c] \in archiveDirs THEN "done" ELSE "absent"]
  /\ UNCHANGED <<fsVars, now, runVars, histVars, stateVars, probeVars, callPath,
                 inputVars>>

\* Line 19: os.makedirs(directory_path), which raises FileExistsError when the
\* directory exists by now.
CallMakedirs(c) ==
  /\ callPc[c] = "absent"
  /\ IF callPath[c] \in archiveDirs
       THEN /\ callPc' = [callPc EXCEPT ![c] = "failed"]
            /\ UNCHANGED archiveDirs
       ELSE /\ callPc' = [callPc EXCEPT ![c] = "done"]
            /\ archiveDirs' = archiveDirs \cup {callPath[c]}
  /\ UNCHANGED <<fsVars, now, runVars, histVars, archive, born, gsListing, gsIdx,
                 gsSuccess, gsResult, lastKeep, probeVars, callPath, inputVars>>

EnsureNext == \E c \in Callers : CallExists(c) \/ CallMakedirs(c)

EnsureSpec == EnsureInit /\ [][EnsureNext]_vars

(***************************************************************************)
(* Vocabulary of the properties.                                           *)
(***************************************************************************)
\* Snapshot-named files the retained area of t holds.
RetainedCount(t) == Len(get_timestamp_files(DOMAIN arc[t]))

\* The archiving step (process_drift_detect_subfolders) is over.
ArchivingDone == pc \in {"preparing", "invoking", "collecting", "pushing", "returned"}

\* run_get_drift returned `consolidated`.
Returned == pc = "returned"

HasMetadata == MetadataKey \in DOMAIN consolidated

\* The keys of the report other than the reserved one.
DiffKeys == (DOMAIN consolidated) \ {MetadataKey}

\* The target the comparison loop is at.
Current == toProcess[pidx]

(***************************************************************************)
(* C1: for every target whose retained area holds a number of snapshot     *)
(* files other than 2 after the archiving step, the analyzer is never      *)
(* invoked and the target's name is never a key of the returned report.    *)
(* Violated: get_subfolders does not skip a directory named _metadata (C9),*)
(* so such a target, skipped with 0, 1 or 3 snapshots, still has its name  *)
(* as a key of the report once line 375 adds the metadata.                 *)
(***************************************************************************)
C1_UnpairedTargetExcluded ==
  \A t \in targets :
    (ArchivingDone /\ RetainedCount(t) # 2) =>
      /\ invoked[t] = <<>>
      /\ Returned => t \notin DOMAIN consolidated

(***************************************************************************)
(* C2: within one run the analyzer is invoked at most once for each        *)
(* target, whatever its outcome: no retry, no target processed twice.      *)
(***************************************************************************)
C2_AtMostOneInvocation == \A t \in TargetNames : Len(invoked[t]) <= 1

\* A run returned after the one invocation for a target failed.
C2_Witness ==
  /\ Returned
  /\ \E t \in targets : Len(invoked[t]) = 1 /\ outcome[t] = "TOOL_FAILURE"

(***************************************************************************)
(* C3: a filesystem failure while one target is archived or compared makes *)
(* only that target fail: run_get_drift does not raise for it.             *)
(* Violated: nothing between the copy, move or makedirs call and the       *)
(* except clause of run_get_drift catches the exception.                   *)
(***************************************************************************)
C3_TargetFailureContained == raisedAt \notin {"archive", "compare"}

(***************************************************************************)
(* C4: whenever run_get_drift raises, it has touched no target: no         *)
(* directory created, no file copied or moved, no analyzer run, no report  *)
(* file written.                                                           *)
(* Violated: the failures of C3 raise after earlier copies and moves.      *)
(***************************************************************************)
C4_RaiseTouchesNothing == pc = "raised" => (~touched /\ reportFile = <<>>)

(***************************************************************************)
(* C5: the drift_ files already in the comparison directory are moved to   *)
(* drift_archive before the analyzer is invoked: at the moment of          *)
(* invocation the directory holds none, and the document the report stores *)
(* for a target is read from a file the analyzer wrote in this run.        *)
(***************************************************************************)
C5_StaleOutputArchivedFirst ==
  \* At the moment of an invocation the target's directory holds no drift_ file.
  /\ [][\A t \in TargetNames :
          invoked'[t] # invoked[t] => DriftFilesOf(arc[t]) = {}]_vars
  \* A drift_ file leaves the directory only into drift_archive.
  /\ [][\A t \in TargetNames :
          (DriftFilesOf(arc[t]) \ DriftFilesOf(arc'[t])) \subseteq driftArch'[t]]_vars
  \* The document of the report was read from a file written in this run.
  /\ [](\A t \in DOMAIN sourceFile : sourceFile[t].origin = "run")

\* A document was stored for a target whose directory held recent stale output.
C5_Witness ==
  \E t \in DOMAIN sourceFile :
    /\ StaleDriftName \in driftArch[t]
    /\ outcome[t] = "DIFFED"


SelectedTargets ==
  {t \in targets : get_timestamp_files(work[t]) # <<>> /\ RetainedCount(t) = 2}

C7_ReportAlwaysHasMetadata ==
  /\ Returned => HasMetadata
  /\ pc = "raised" => raisedAt = "check"

(***************************************************************************)
(* C8: when no target directory is named _metadata, in every report that   *)
(* carries _metadata, subfolders_with_drift equals the number of the other *)
(* keys, and those keys are exactly the targets that reached DIFFED.       *)
(***************************************************************************)
C8_DriftCountMatchesKeys ==
  (MetadataKey \notin targets /\ HasMetadata) =>
    /\ consolidated[MetadataKey].subfolders_with_drift = Cardinality(DiffKeys)
    /\ DiffKeys = {t \in targets : outcome[t] = "DIFFED"}

\* A returned report with _metadata and at least one diffed target.
C8_Witness ==
  /\ Returned
  /\ HasMetadata
  /\ MetadataKey \notin targets
  /\ DiffKeys # {}

(***************************************************************************)
(* C9: a subdirectory of drift-detect named _metadata is never treated as  *)
(* a target: it is skipped during enumeration, and no diff document is     *)
(* overwritten by the metadata.                                            *)
(* Violated: get_subfolders returns every subdirectory.                    *)
(***************************************************************************)
C9_MetadataNameSkipped ==
  /\ MetadataKey \notin Range(listing)
  /\ outcome[MetadataKey] = "UNSEEN"
  /\ (Returned /\ HasMetadata) =>
       consolidated[MetadataKey].subfolders_with_drift = Cardinality(DiffKeys)

(***************************************************************************)
(* C10: every target whose retained area holds exactly 2 snapshot files at *)
(* the time of a run is selected as Ready and the analyzer is invoked for  *)
(* it, also when its working directory holds no snapshot file.             *)
(* Violated: lines 271-273 skip a target with no snapshot in its working   *)
(* directory before its retained area is looked at.                        *)
(***************************************************************************)
C10_PairedTargetAlwaysReady ==
  \A t \in targets :
    (Returned /\ RetainedCount(t) = 2) =>
      /\ t \in Range(toProcess)
      /\ Len(invoked[t]) = 1

(***************************************************************************)
(* The reading of a snapshot name as numbers: the values of its groups of  *)
(* digits, in order.                                                       *)
(***************************************************************************)
DigitVal(c) == Ord(c) - Ord("0")

RECURSIVE GroupVal(_)
GroupVal(g) ==
  IF Len(g) = 0 THEN 0
  ELSE 10 * GroupVal(SubSeq(g, 1, Len(g) - 1)) + DigitVal(g[Len(g)])

\* How many groups at the start of the name are groups of digits.
LeadingDigitGroups(g) ==
  Cardinality({i \in 1..Len(g) : \A j \in 1..i : IsDigits(g[j])})

NumbersOf(n) ==
  LET g == SplitDots(Chars(n))
  IN  [i \in 1..LeadingDigitGroups(g) |-> GroupVal(g[i])]

\* a is older than b: the smaller number at the first group where they differ.
NumericOlder(a, b) ==
  LET va == NumbersOf(a)
      vb == NumbersOf(b)
  IN  \E i \in 1..Len(va) :
        /\ i <= Len(vb)
        /\ va[i] < vb[i]
        /\ \A j \in 1..(i - 1) : va[j] = vb[j]

(***************************************************************************)
(* C11: both collectors order snapshot names by the numbers of their       *)
(* groups: of two snapshot names, the one with the smaller number at the   *)
(* first differing group comes first in get_timestamp_files and last in    *)
(* the descending sort of handle_existing_timestamp_files.                 *)
(* Violated: both sort the names as strings, so ...86.10 comes before      *)
(* ...86.9.                                                                *)
(***************************************************************************)
C11_NumericOrder ==
  (/\ probePc = "ordered"
   /\ is_timestamp_file(nameA)
   /\ is_timestamp_file(nameB)
   /\ NumericOlder(nameA, nameB)) =>
    /\ ordered = <<nameA, nameB>>
    /\ descending = <<nameB, nameA>>

\* The shape of a snapshot name as specified: 8 or 9 groups of digits, then nothing or one
\* extension that is not a further group of digits.
SnapshotShape(n) ==
  LET g == SplitDots(Chars(n))
      d == LeadingDigitGroups(g)
  IN  /\ d \in {8, 9}
      /\ \/ Len(g) = d
         \/ Len(g) = d + 1 /\ IsWord(g[d + 1])

(***************************************************************************)
(* C12: is_timestamp_file accepts a name exactly when the whole name is 8  *)
(* or 9 dot-separated groups of digits, optionally followed by one         *)
(* extension; names with 7 or fewer or 10 or more groups of digits, an     *)
(* empty group or a group that is no number are rejected.                  *)
(* Violated: \w of the pattern matches digits, so a tenth group of digits  *)
(* is taken as the extension.                                              *)
(***************************************************************************)
C12_AcceptsExactlySnapshotShape ==
  probePc \in {"classified", "ordered"} => (accepted = "yes" <=> SnapshotShape(nameA))

\* The step of get-state that applies keep-latest to the target its loop is at.
KeepLatestStep == pc = "gs_processing" /\ pc' = "gs_invoking"

\* The snapshot-named files of a set of names.
Snapshots(names) == names \cap TimestampNamed

\* The most recent of a set of snapshot names: none of the others is newer.
MostRecent(S) == {m \in S : \A x \in S : ~NumericOlder(m, x)}

(***************************************************************************)
(* C13: keep-latest on a working directory with n snapshot files: with n   *)
(* of 0 or 1 no file moves; with n of 2 or more the most recent snapshot,  *)
(* and only it, stays and the n-1 older ones are in the archive folder;    *)
(* files that are no snapshots do not move.                                *)
(* Violated: the file that stays is the first of the descending string     *)
(* sort (C11), which for ...86.9 and ...86.10 is the older ...86.9.        *)
(***************************************************************************)
C13_KeepLatestKeepsMostRecent ==
  [][KeepLatestStep =>
       LET t == gsListing[gsIdx]
           snaps == Snapshots(work[t])
       IN  /\ Cardinality(snaps) <= 1 => (work'[t] = work[t] /\ archive'[t] = archive[t])
           /\ Cardinality(snaps) >= 2 =>
                /\ Snapshots(work'[t]) = MostRecent(snaps)
                /\ (snaps \ MostRecent(snaps)) \subseteq archive'[t]
           /\ (work[t] \ snaps) \subseteq work'[t]]_vars

(***************************************************************************)
(* C14: keep-latest is idempotent: applied again to a target with no file  *)
(* added to its working directory in between, it moves nothing and leaves  *)
(* the working directory and the archive folder as they were; and on every *)
(* working directory, what one application leaves, a second leaves alone.  *)
(***************************************************************************)
C14_KeepLatestIdempotent ==
  /\ [][(KeepLatestStep /\ lastKeep[gsListing[gsIdx]] # "none") =>
          /\ work' = work
          /\ archive' = archive
          /\ archiveDirs' = archiveDirs]_vars
  /\ [](\A t \in TargetNames :
          handle_existing_timestamp_files(
            work[t] \ handle_existing_timestamp_files(work[t])) = {})

\* Keep-latest ran again on a target of which it had archived a snapshot, with no
\* file added in between.
C14_Witness ==
  /\ lastKeep[PipelineTarget] = "again"
  /\ archive[PipelineTarget] # {}

\* The archiving step of get-drift has gone over the target.
Archived(t) == ArchivingDone /\ t \in Range(listing)

(***************************************************************************)
(* C15: after the archiving step of get-drift every snapshot file of a     *)
(* working directory is in the retained area of the target under the same  *)
(* name; no other file of the working directory is copied, and no step of  *)
(* get-drift changes a working directory; and the step repeated on a       *)
(* target whose snapshots are all retained already leaves the layout as it *)
(* was.                                                                    *)
(***************************************************************************)
C15_RelocateAll ==
  /\ [](\A t \in targets :
          /\ Archived(t) => Snapshots(work[t]) \subseteq DOMAIN arc[t]
          /\ (DOMAIN arc[t]) \cap RequiredNames = {})
  /\ [][\A t \in TargetNames :
          /\ DOMAIN arc'[t] # DOMAIN arc[t] => work' = work
          /\ (/\ pc = "archiving"
              /\ pc' = "archiving"
              /\ Snapshots(work[t]) \subseteq DOMAIN arc[t]) =>
               /\ DOMAIN arc'[t] = DOMAIN arc[t]
               /\ work'[t] = work[t]
               /\ archive'[t] = archive[t]]_vars

\* A get-drift run that follows one that wrote its report has archived the target
\* again, no file having been added to or moved from its working directory.
C15_Witness ==
  /\ reportFile # <<>>
  /\ ~HasMetadata
  /\ Archived(PipelineTarget)
  /\ Snapshots(work[PipelineTarget]) # {}
  /\ work[PipelineTarget] \ Snapshots(work[PipelineTarget]) # {}
  /\ archive[PipelineTarget] = {}
  /\ born[PipelineTarget] = NoTimes

\* The snapshot file names present in some location of the target.
SnapshotsAnywhere(t) == Snapshots(work[t] \cup archive[t] \cup DOMAIN arc[t])

(***************************************************************************)
(* C16: no step of a get-state or get-drift run deletes a snapshot file:   *)
(* every snapshot name present in the working directory, the archive       *)
(* folder or the retained area of a target before the step is present in   *)
(* one of them after it.                                                   *)
(***************************************************************************)
C16_NoSnapshotDeleted ==
  [][\A t \in TargetNames : SnapshotsAnywhere(t) \subseteq (SnapshotsAnywhere(t))']_vars

\* Get-state has moved a snapshot to the archive folder and get-drift has copied
\* one to the retained area, in runs that followed each other.
C16_Witness ==
  /\ archive[PipelineTarget] # {}
  /\ Snapshots(DOMAIN arc[PipelineTarget]) # {}
  /\ Snapshots(archive[PipelineTarget]) \ work[PipelineTarget] # {}
  /\ pc \in {"returned", "gs_returned"}

\* The three failures of a target after its selection.
Failures == {"TOOL_FAILURE", "NO_OUTPUT", "DATA_FORMAT_ERROR"}

(***************************************************************************)
(* C17: a selected target for which the analyzer fails, no output file is  *)
(* found or the output is no JSON is left out of the report's keys, is     *)
(* counted in subfolders_processed and not in subfolders_with_drift; the   *)
(* failure does not raise and the loop goes on to the next target, so that *)
(* a run that returns has processed every selected target.                 *)
(* Violated: a target directory named _metadata is selected like any other *)
(* (C9), and after its failure its name is still a key of the report, the  *)
(* key of the metadata.                                                    *)
(***************************************************************************)
C17_FailureLeavesTargetOut ==
  /\ [](Returned /\ HasMetadata =>
          \A t \in Range(toProcess) :
            /\ outcome[t] # "READY"
            /\ outcome[t] \in Failures =>
                 /\ t \notin DOMAIN consolidated
                 /\ consolidated[MetadataKey].subfolders_processed = Len(toProcess)
                 /\ consolidated[MetadataKey].subfolders_with_drift =
                      Cardinality({u \in Range(toProcess) : outcome[u] = "DIFFED"}))
  /\ [][\A t \in TargetNames :
          (outcome'[t] \in Failures /\ outcome[t] \notin Failures) =>
            /\ pc' = "preparing"
            /\ pidx' = pidx + 1]_vars

\* The drift_ files of a directory that the analyzer of this run wrote.
WrittenByRun(dir) == {n \in DriftFilesOf(dir) : dir[n].origin = "run"}

(***************************************************************************)
(* C18: after a successful invocation the lookup finds an output file      *)
(* whenever the analyzer wrote one at or after the time it was invoked,    *)
(* however long it ran, and finds none otherwise.                          *)
(* Violated: the 60 seconds are counted back from the time of the lookup,  *)
(* after the analyzer has exited, so the output of an analyzer that wrote  *)
(* its file 60 seconds or more before it exited is not found.              *)
(***************************************************************************)
C18_OutputFoundWhateverDuration ==
  \A t \in TargetNames :
    outcome[t] \in {"NO_OUTPUT", "DIFFED", "DATA_FORMAT_ERROR"} =>
      (outcome[t] = "NO_OUTPUT" <=> WrittenByRun(arc[t]) = {})

(***************************************************************************)
(* C19: the analyzer is invoked with the file names of the two retained    *)
(* snapshots of the target, the older as start and the newer as end: the   *)
(* two are never equal and never swapped.                                  *)
(* Violated: the two are in the string order of get_timestamp_files (C11), *)
(* so for ...86.9 and ...86.10 the newer is the start.                     *)
(***************************************************************************)
C19_OlderIsStart ==
  \A t \in TargetNames :
    \A i \in 1..Len(invoked[t]) :
      LET start_time == invoked[t][i][1]
          end_time == invoked[t][i][2]
      IN  /\ {start_time, end_time} = Snapshots(DOMAIN arc[t])
          /\ start_time # end_time
          /\ NumericOlder(start_time, end_time)

(***************************************************************************)
(* C20: the push is attempted only after drift_report.json holds the       *)
(* report, and whether it succeeds or fails it does not raise and does not *)
(* change the report, which is the one returned.                           *)
(***************************************************************************)
C20_PushAfterReportWritten ==
  /\ [](pushed # "none" => (HasMetadata /\ reportFile = <<consolidated>>))
  /\ [][pushed' # pushed =>
          /\ reportFile = <<consolidated>>
          /\ reportFile' = reportFile
          /\ consolidated' = consolidated
          /\ pc' = "returned"]_vars

\* The push failed and the run returned the report it had written.
C20_Witness ==
  /\ Returned
  /\ pushed = "failed"
  /\ reportFile = <<consolidated>>
  /\ DiffKeys # {}

(***************************************************************************)
(* C21: ensure_directory_exists is safe under concurrent calls for the     *)
(* same path: whatever the interleaving, no call fails with an "already    *)
(* exists" error, and after a call the directory exists.                   *)
(* Violated: two callers both find the directory absent, the first creates *)
(* it and os.makedirs of the second raises FileExistsError.                *)
(***************************************************************************)
C21_EnsureDirectoryConcurrent ==
  \A c \in Callers :
    /\ callPc[c] # "failed"
    /\ callPc[c] = "done" => callPath[c] \in archiveDirs

(***************************************************************************)
(* What one run_get_drift leaves for a target, as a function of what the   *)
(* run started from (work, arc0, driftArch0) and of what the analyzer did  *)
(* for the target (behaved): nothing here reads the order of the listing.  *)
(***************************************************************************)
HasWork(t) == t \in targets /\ Snapshots(work[t]) # {}

ExpectedSnapshots(t) ==
  Snapshots(DOMAIN arc0[t]) \cup (IF HasWork(t) THEN Snapshots(work[t]) ELSE {})

ExpectedReady(t) == HasWork(t) /\ Cardinality(ExpectedSnapshots(t)) = 2

ExpectedRetained(t) ==
  IF ExpectedReady(t)
    THEN (((DOMAIN arc0[t]) \cup ExpectedSnapshots(t)) \ DriftNamed)
           \cup (IF behaved[t].out = "none" THEN {} ELSE {OutputDriftName})
    ELSE (DOMAIN arc0[t]) \cup ExpectedSnapshots(t)

ExpectedDriftArchive(t) ==
  driftArch0[t] \cup (IF ExpectedReady(t) THEN DriftFilesOf(arc0[t]) ELSE {})

ExpectedDiff(t) ==
  /\ ExpectedReady(t)
  /\ behaved[t].exit = "ok"
  /\ behaved[t].out = "new_diff"
  /\ behaved[t].dur - behaved[t].at < RecencyWindow

ExpectedOutcome ==
  /\ \A t \in {u \in TargetNames : ExpectedReady(u)} : t \in DOMAIN behaved
  /\ \A t \in TargetNames :
       /\ DOMAIN arc[t] = ExpectedRetained(t)
       /\ driftArch[t] = ExpectedDriftArchive(t)
       /\ HasWork(t) => t \in arcDirs
       /\ ExpectedReady(t) => t \in driftArchDirs
  /\ IF \E t \in TargetNames : ExpectedReady(t)
       THEN /\ DiffKeys = {t \in TargetNames : ExpectedDiff(t)} \ {MetadataKey}
            /\ \A t \in DiffKeys : consolidated[t].doc = "new_diff"
            /\ HasMetadata
            /\ consolidated[MetadataKey].subfolders_processed =
                 Cardinality({t \in TargetNames : ExpectedReady(t)})
            /\ consolidated[MetadataKey].subfolders_with_drift =
                 Cardinality({t \in TargetNames : ExpectedDiff(t)})
            /\ reportFile = <<consolidated>>
       ELSE consolidated = EmptyReport /\ reportFile = <<>>

\* The target at which a step of the run raised.
FailedTarget ==
  IF raisedAt = "archive" THEN {listing[idx]}
  ELSE IF raisedAt = "compare" THEN {toProcess[pidx]}
  ELSE {}

(***************************************************************************)
(* C22: what a run of run_get_drift leaves does not depend on the order in *)
(* which the listing returns the targets: the final layout, the keys and   *)
(* documents of the report and the two counts are those the inputs and the *)
(* analyzer's behaviour determine; and when a step fails at one target,    *)
(* every other target has been archived as it is when that target comes    *)
(* last.                                                                   *)
(* Violated: a failure at one target ends the run (C3), so the targets     *)
(* that the listing returns after it are not archived, those before it     *)
(* are.                                                                    *)
(***************************************************************************)
C22_OrderIndependent ==
  /\ Returned => ExpectedOutcome
  /\ (pc = "raised" /\ raisedAt \in {"archive", "compare"}) =>
       \A t \in targets \ FailedTarget :
         HasWork(t) => Snapshots(work[t]) \subseteq DOMAIN arc[t]

\* The targets for which process_subfolder returned True in this run.
Captured == {t \in targets : outcome[t] = "CAPTURED"}

(***************************************************************************)
(* C23: run_get_state returns True exactly when process_subfolder          *)
(* succeeded for at least one target, that is when the target has both     *)
(* required files, its command exited with status 0 and a new state file   *)
(* was detected; it returns False when there is no subfolder or when no    *)
(* target succeeded; it raises only when drift-detect is missing or when a *)
(* filesystem operation (creating the archive folder, moving a snapshot)   *)
(* fails.                                                                  *)
(***************************************************************************)
C23_ReturnsTrueIffSomeTargetSucceeded ==
  /\ pc \in {"gs_processing", "gs_invoking", "gs_returned"} =>
       gsSuccess = Cardinality(Captured)
  /\ (pc = "gs_processing" /\ gsIdx > 1) =>
       LET t == gsListing[gsIdx - 1]
           detected == check_state_file_created(work[t], born[t], now)
       IN  /\ outcome[t] \in {"SKIPPED", "COMMAND_FAILED", "NO_NEW_FILE", "CAPTURED"}
           /\ outcome[t] = "SKIPPED" <=> ~check_required_files(work[t])
           /\ outcome[t] = "CAPTURED" => detected # {}
           /\ outcome[t] = "NO_NEW_FILE" => detected = {}
  /\ pc = "gs_returned" =>
       /\ gsResult \in {"true", "false"}
       /\ gsResult = "true" <=> Captured # {}
       /\ targets = {} => gsResult = "false"
  /\ (pc = "raised" /\ raisedAt = "gs_check") => ~ddExists
  /\ pc = "raised" => raisedAt \in {"gs_check", "gs_keep"}
  /\ pc \in {"idle", "gs_processing", "gs_invoking"} => gsResult = "none"

\* True is returned although one target was skipped and another one failed.
C23_Witness ==
  /\ pc = "gs_returned"
  /\ gsResult = "true"
  /\ \E t \in targets : outcome[t] = "CAPTURED"
  /\ \E t \in targets : outcome[t] \in {"SKIPPED", "COMMAND_FAILED", "NO_NEW_FILE"}

\* The target process_subfolder is about to look at.
AtTarget(t) ==
  pc = "gs_processing" /\ gsIdx <= Len(gsListing) /\ t = gsListing[gsIdx]

(***************************************************************************)
(* C24: in get-state a target whose working directory lacks template.json  *)
(* or shortcut.json is skipped with no effect: its archive folder is not   *)
(* created, no snapshot is moved, the command is not run (no file is       *)
(* written and no time passes), and the run goes on to the next target.    *)
(***************************************************************************)
C24_MissingRequiredFileSkips ==
  [][\A t \in TargetNames :
       (AtTarget(t) /\ ("template.json" \notin work[t] \/ "shortcut.json" \notin work[t])) =>
         /\ work' = work
         /\ archiveDirs' = archiveDirs
         /\ archive' = archive
         /\ born' = born
         /\ now' = now
         /\ gsSuccess' = gsSuccess
         /\ outcome'[t] = "SKIPPED"
         /\ pc' = "gs_processing"
         /\ gsIdx' = gsIdx + 1]_vars

\* A target with two snapshots and one required file only has been skipped: it
\* has no archive folder and both snapshots are where they were.
C24_Witness ==
  /\ pc = "gs_processing"
  /\ gsIdx > 1
  /\ LET t == gsListing[gsIdx - 1]
     IN  /\ outcome[t] = "SKIPPED"
         /\ "template.json" \in work[t]
         /\ Cardinality(Snapshots(work[t])) >= 2
         /\ t \notin archiveDirs
         /\ archive[t] = {}

(***************************************************************************)
(* C25: process_subfolder reports success only if the get-state command of *)
(* this invocation created a new snapshot file: when the command wrote     *)
(* nothing, the snapshot that keep-latest left in place is not taken for a *)
(* new state file, also when the run follows another one within the        *)
(* recency window.                                                         *)
(* Violated: check_state_file_created takes every snapshot file created    *)
(* less than 60 seconds ago for a new one, and the snapshot of a run that  *)
(* ended less than 60 seconds ago is such a file.                          *)
(***************************************************************************)
C25_SuccessNeedsNewSnapshot ==
  (pc = "gs_processing" /\ gsIdx > 1) =>
    LET t == gsListing[gsIdx - 1]
    IN  outcome[t] = "CAPTURED" => lastKeep[t] = "none"

\* What a target that was Ready in this run has come to.
ReadyOutcomes == {"READY", "TOOL_FAILURE", "NO_OUTPUT", "DATA_FORMAT_ERROR", "DIFFED"}

(***************************************************************************)
(* C26: once drift-detect-archive/<target> holds 3 snapshot files or more, *)
(* no later sequence of run_get_state and run_get_drift runs makes the     *)
(* target Ready again: no step takes a snapshot out of the retained        *)
(* folder, and a target with 3 retained snapshots or more is not selected  *)
(* for comparison, its analyzer is not invoked and it has no outcome of a  *)
(* Ready target.                                                           *)
(***************************************************************************)
C26_OverfullNeverReady ==
  /\ [][\A t \in TargetNames :
          RetainedCount(t) >= 3 => (RetainedCount(t))' >= 3]_vars
  /\ [](\A t \in TargetNames :
          RetainedCount(t) >= 3 =>
            /\ t \notin Range(toProcess)
            /\ invoked[t] = <<>>
            /\ outcome[t] \notin ReadyOutcomes)

\* A run that started with 3 retained snapshots and a new snapshot in the working
\* directory has returned, and the target was found not paired.
C26_Witness ==
  /\ Returned
  /\ \E t \in targets :
       /\ Cardinality(Snapshots(DOMAIN arc0[t])) >= 3
       /\ Snapshots(work[t]) # {}
       /\ outcome[t] = "NOT_PAIRED"

\* A step of run_get_drift: every step but those taken while no run is going on.
DriftRunStep == ~(pc = "idle" /\ pc' = "idle")

====
